---- MODULE Spec2Model ----
(***************************************************************************)
(* Model of zaringleb/audio-journal-bot.                                   *)
(*                                                                         *)
(*   SpecChunk : src/text_utils.py chunk_text, one loop iteration per step *)
(*   Spec      : src/telegram_bot.py handle_audio_message / run_pipeline / *)
(*               pipeline_blocking driving src/notion_integration.py       *)
(*               create_entry_from_memory, one collaborator call per step  *)
(*   SpecLive  : Spec with the weak fairness of its steps                  *)
(*   SpecDate  : src/date_utils.py journal_date, one statement per step    *)
(*   SpecJobs  : two runs of create_entry_from_memory at the same time     *)
(*                                                                         *)
(* Python strings are modelled as sequences of one-character strings.      *)
(* Python indices are 0-based: the character text[i] of the source is      *)
(* text[i + 1] here, and the slice text[a:b] is Slice(text, a, b).         *)
(***************************************************************************)
EXTENDS Integers, Sequences, FiniteSets, TLC

VARIABLES
    \* ---- chunk_text (src/text_utils.py) ----
    text,        \* argument text
    max_chars,   \* argument max_chars
    start,       \* local: cursor into text (0-based)
    chunks,      \* local: list of chunks emitted so far
    cuts,        \* history: per emitted chunk, the slice bounds and the branch
    cpc,         \* position: "call", "loop", "returned", "raised", "idle"
    \* ---- the pipeline (src/telegram_bot.py, src/notion_integration.py) ----
    pc,                \* position of the job's task
    audio_exists,      \* os.path.exists(audio_path)
    raw_transcript,    \* pipeline_blocking: name of the transcript text
    polished_data,     \* pipeline_blocking: the dict process_transcript returned
    title_text,        \* create_entry_from_memory locals
    structured_chunks,
    raw_first_chunk,
    page_id,
    page_url,
    children,
    batch_i,           \* the loop variable i of the two append loops
    exc,               \* the exception being handled
    result,            \* what pipeline_blocking returned or raised
    store,             \* the Notion database: page id -> page
    archive,           \* the entry directory under journal_entries/
    calls,             \* history: the collaborator calls made, in order
    sent,              \* history: the messages delivered to the user
    remove_calls,      \* history: number of os.remove calls
    \* ---- journal_date (src/date_utils.py) ----
    given,             \* history: the argument message_dt_utc as passed
    message_dt_utc,    \* argument, reassigned by the normalisation
    tz,                \* argument tz
    cutoff,            \* argument cutoff
    local_dt,          \* local
    date_result,       \* the date returned
    dpc,               \* position: "call", "normalized", "local", "return",
                       \* "returned", "idle"
    \* ---- concurrent runs of create_entry_from_memory
    \*      (src/notion_integration.py), one per job ----
    jpc,               \* position of each job
    j_message_dt,      \* argument message_dt of each job
    j_raw,             \* argument raw_transcript of each job (a text name)
    j_polished,        \* polished_data["polished"] of each job (a text name)
    j_entry_id,        \* local entry_id of each job
    j_page_id,         \* local page_id of each job
    j_children,        \* local children of each job
    j_batch_i,         \* loop variable i of each job
    j_entry_dir,       \* local entry_dir of each job
    jstore,            \* the Notion database the jobs share
    jdirs,             \* the directories under journal_entries/
    jfiles,            \* the files under journal_entries/, with their writer
    \* ---- the audio files of concurrent jobs (src/telegram_bot.py) ----
    a_pc,              \* position of each job
    a_path,            \* filename / audio_path of each job
    a_out,             \* what pipeline_blocking returned or raised, per job
    a_cleanup,         \* history: what the finally clause of each job did
    voice_files,       \* the files under VOICE_DIR
    clock,             \* datetime.now(), in whole seconds
    handling           \* the job whose update the dispatcher is handling, or 0

cvars == <<text, max_chars, start, chunks, cuts, cpc>>
locals == <<title_text, structured_chunks, raw_first_chunk, page_id, page_url,
            children, batch_i>>
pvars == <<pc, audio_exists, raw_transcript, polished_data, locals, exc, result,
           store, archive, calls, sent, remove_calls>>
dvars == <<given, message_dt_utc, tz, cutoff, local_dt, date_result, dpc>>
jvars == <<jpc, j_message_dt, j_raw, j_polished, j_entry_id, j_page_id,
          j_children, j_batch_i, j_entry_dir, jstore, jdirs, jfiles>>
avars == <<a_pc, a_path, a_out, a_cleanup, voice_files, clock, handling>>
vars == <<cvars, pvars, dvars, jvars, avars>>

----------------------------------------------------------------------------
(* Bounds of the chunker's input space *)
MaxLen == 5        \* longest text enumerated
MaxMaxChars == 3   \* largest max_chars enumerated

(* Characters: a letter, the three break characters chunk_text searches    *)
(* for with rfind, and carriage return standing for every character that   *)
(* str.isspace() accepts but the rfind calls do not look for.              *)
Letters == {"a"}
BreakChars == {" ", "\t", "\n"}
OtherSpace == {"\r"}
Chars == Letters \cup BreakChars \cup OtherSpace

\* str.isspace() on a single character
isspace(c) == c \in BreakChars \cup OtherSpace

Min(a, b) == IF a <= b THEN a ELSE b
Max(a, b) == IF a >= b THEN a ELSE b

\* text[a:b] for 0 <= a, b <= len(text)
Slice(s, a, b) == IF b <= a THEN <<>> ELSE SubSeq(s, a + 1, b)

\* s.rfind(ch, lo, hi) for a single character ch: highest index in [lo, hi)
\* holding ch, or -1
rfind(s, ch, lo, hi) ==
    LET found == {i \in lo..(hi - 1) : s[i + 1] = ch}
    IN  IF found = {} THEN -1
        ELSE CHOOSE i \in found : \A j \in found : j <= i

\* mutant: the window is one character too narrow
WindowEnd_short(st, mc, length) == Min(st + mc - 1, length)

\* mutant: the window is one character too wide
WindowEnd_m(st, mc, length) == Min(st + mc + 1, length)

\* end = min(start + max_chars, length)
WindowEnd(st, mc, length) == Min(st + mc, length)

\* last_break = max(last_space, last_space_tab, last_space_nl)
LastBreak(s, st, end) ==
    LET last_space     == rfind(s, " ", st, end)
        last_space_tab == rfind(s, "\t", st, end)
        last_space_nl  == rfind(s, "\n", st, end)
    IN  Max(last_space, Max(last_space_tab, last_space_nl))

\* mutant: the hard-cut branch is never taken, a window without a break is
\* cut "after" position -1
NoBreakInWindow_never(last_break, st) == FALSE

\* the condition of the hard-cut branch
NoBreakInWindow(last_break, st) == last_break = -1 \/ last_break <= st

\* mutant: two characters are skipped after an edge cut
AfterEdge_m(end) == end + 2

\* start after a cut at whitespace on the window edge
AfterEdge(end) == end + 1

\* mutant: the back-tracking branch leaves the whitespace out of the chunk
BackChunk_m(s, st, last_break) == Slice(s, st, last_break)

\* the chunk emitted by the back-tracking branch
BackChunk(s, st, last_break) == Slice(s, st, last_break + 1)

\* mutant: an over-long word is not cut at the hard limit but emitted whole,
\* up to the next whitespace or the end of the text
ChunkIter_m(s, mc, st) ==
    LET length == Len(s)
        end    == WindowEnd(st, mc, length)
    IN  IF end = length
        THEN [chunk |-> Slice(s, st, end), kind |-> "tail",
              lo |-> st, hi |-> end, next |-> st, brk |-> TRUE]
        ELSE IF isspace(s[end + 1])
        THEN [chunk |-> Slice(s, st, end), kind |-> "edge",
              lo |-> st, hi |-> end, next |-> AfterEdge(end), brk |-> FALSE]
        ELSE LET last_break == LastBreak(s, st, end)
                 stops == {i \in end..length : i = length \/ isspace(s[i + 1])}
                 word_end == CHOOSE i \in stops : \A j \in stops : i <= j
             IN  IF NoBreakInWindow(last_break, st)
                 THEN [chunk |-> Slice(s, st, word_end), kind |-> "hard",
                       lo |-> st, hi |-> word_end, next |-> word_end, brk |-> FALSE]
                 ELSE [chunk |-> BackChunk(s, st, last_break), kind |-> "back",
                       lo |-> st, hi |-> last_break + 1,
                       next |-> last_break + 1, brk |-> FALSE]

\* One iteration of the while loop, entered with start < len(text):
\* the chunk appended, the branch taken, the slice bounds, the new start and
\* whether the loop is left by break.
ChunkIter(s, mc, st) ==
    LET length == Len(s)
        end    == WindowEnd(st, mc, length)
    IN  IF end = length
        THEN [chunk |-> Slice(s, st, end), kind |-> "tail",
              lo |-> st, hi |-> end, next |-> st, brk |-> TRUE]
        ELSE IF isspace(s[end + 1])
        THEN [chunk |-> Slice(s, st, end), kind |-> "edge",
              lo |-> st, hi |-> end, next |-> AfterEdge(end), brk |-> FALSE]
        ELSE LET last_break == LastBreak(s, st, end)
             IN  IF NoBreakInWindow(last_break, st)
                 THEN [chunk |-> Slice(s, st, end), kind |-> "hard",
                       lo |-> st, hi |-> end, next |-> end, brk |-> FALSE]
                 ELSE [chunk |-> BackChunk(s, st, last_break), kind |-> "back",
                       lo |-> st, hi |-> last_break + 1,
                       next |-> last_break + 1, brk |-> FALSE]

\* chunk_text as a function, for callers (max_chars > 0)
RECURSIVE ChunkFrom(_, _, _)
ChunkFrom(s, mc, st) ==
    IF st >= Len(s) THEN <<>>
    ELSE LET it == ChunkIter(s, mc, st)
         IN  <<it.chunk>> \o (IF it.brk THEN <<>> ELSE ChunkFrom(s, mc, it.next))

chunk_text(s, mc) == IF Len(s) = 0 THEN <<>> ELSE ChunkFrom(s, mc, 0)

----------------------------------------------------------------------------
(* The pipeline: constants and inputs *)

\* src/notion_integration.py
MAX_CHARS == 1800
CHILD_BATCH_SIZE == 50

(* Bounds of the pipeline's inputs *)
ShortLen == 11      \* length of the one-chunk text
LongChunks == 52    \* number of chunks of the longest text
OldPages == 1       \* pages the database may hold before the run

\* n characters, every tenth one a space
PipeText(n) == [p \in 1..n |-> IF p % 10 = 0 THEN " " ELSE "a"] \o <<>>

\* The texts a transcription or a polishing may deliver, by name
TextNames == {"empty", "short", "two", "long"}

TextOf ==
    [t \in TextNames |->
        CASE t = "empty" -> <<>>
          [] t = "short" -> PipeText(ShortLen)
          [] t = "two"   -> PipeText(MAX_CHARS + ShortLen)
          [] t = "long"  -> PipeText((LongChunks - 1) * MAX_CHARS + 1)]

\* len(chunk_text(t, MAX_CHARS)) for each text
NumChunks == [t \in TextNames |-> Len(chunk_text(TextOf[t], MAX_CHARS))]

\* A string taken from a text: chunk k of chunk_text(t, MAX_CHARS), or (k = 0)
\* the literal string named by "of"
Chunk(t, k) == [of |-> t, k |-> k]
Literal(str) == [of |-> str, k |-> 0]
NoString == Literal("None")

\* chunk_text(t, MAX_CHARS) as a list of such strings
ChunksOf(t) == [k \in 1..NumChunks[t] |-> Chunk(t, k)]

\* the truth value Python gives a text
Truthy(t) == Len(TextOf[t]) > 0

\* str(exc).lower() is modelled by the set of the words get_error_message
\* looks for that occur in it
Exc(origin, type, words) == [origin |-> origin, type |-> type, words |-> words]
NoExc == Exc("none", "none", {})

\* errors of the OpenAI client (transcription.py:48, llm_polish.py:69)
OpenAIErrors(origin) ==
    { Exc(origin, "APIConnectionError", {}),        \* "Connection error."
      Exc(origin, "AuthenticationError", {"openai"}) }
          \* "... find your API key at https://platform.openai.com/..."

\* transcribe_audio: FileNotFoundError when the file is gone, else the
\* client's errors or RuntimeError("Unexpected OpenAI response: ...")
TranscriptionErrors(exists) ==
    IF ~exists
    THEN { Exc("transcription", "FileNotFoundError", {"file"}) }
    ELSE OpenAIErrors("transcription")
         \cup { Exc("transcription", "RuntimeError", {"openai"}) }

\* process_transcript: the client's errors, or json.loads failing
\* ("Expecting value: line 1 column 1 (char 0)")
PolishingErrors ==
    OpenAIErrors("polishing") \cup { Exc("polishing", "JSONDecodeError", {}) }

\* errors of the Notion client
StoreErrors(origin) ==
    { Exc(origin, "APIResponseError", {}),          \* the API's own message
      Exc(origin, "RequestTimeoutError", {"notion"}) }
          \* "Request to Notion API has timed out"

\* OSError of mkdir / write_text; its text ends with the path of the call,
\* journal_entries/<timestamp>_<entry id>[/<file name>], and so holds "json"
\* when the file is polished.json or metadata.json
ArchiveErrors(step) ==
    LET in_path == IF step \in {"write_polished", "write_metadata"}
                   THEN {"json"} ELSE {}
    IN  { Exc("archive", "PermissionError", in_path),
              \* "[Errno 13] Permission denied: '...'"
          Exc("archive", "FileNotFoundError", {"file"} \cup in_path) }
              \* "[Errno 2] No such file or directory: '...'"

\* errors of bot.send_message
TelegramErrors ==
    { Exc("notify", "NetworkError", {}),
      Exc("notify", "BadRequest", {"parse"}) }      \* "Can't parse entities: ..."

\* what process_transcript may return: json.loads of the reply, a dict whose
\* keys the backend chose ("NoKey": the key is absent)
Summaries == {"NoKey", "", "Morning walk"}
Keywords == {"NoKey", "walk, coffee"}
PolishedPayloads ==
    [polished : TextNames \cup {"NoKey"}, summary : Summaries, keyword : Keywords]
NoPayload == [polished |-> "None", summary |-> "None", keyword |-> "None"]

\* Notion blocks
_paragraph_block(str) == [type |-> "paragraph", rich_text |-> str]
_heading_block(str) == [type |-> "heading_2", rich_text |-> str]

\* a page URL, as issued by the store for page id n (0: none)
Url(n) == [page |-> n]
NoUrl == Url(0)

\* the outcome of pipeline_blocking
NoResult == [kind |-> "none", url |-> NoUrl, exc |-> NoExc]
ReturnedUrl(u) == [kind |-> "returned", url |-> u, exc |-> NoExc]
Raised(e) == [kind |-> "raised", url |-> NoUrl, exc |-> e]

\* a page as the database holds it
Page(title, structured, raw) ==
    [title |-> title, structured |-> structured, raw |-> raw,
     children |-> <<>>, archived |-> FALSE]
OldPage == Page(Literal("Yesterday"), Literal("old entry"), NoString)

\* a collaborator call as logged in the history
Call(op, phase, at, ok) == [op |-> op, phase |-> phase, at |-> at, ok |-> ok]

\* get_error_message: the text sent for exc (the generic text carries the
\* exception's type name)
get_error_message(e) ==
    IF "openai" \in e.words \/ "whisper" \in e.words
    THEN [msg |-> "Failed to transcribe audio", etype |-> "none"]
    ELSE IF "notion" \in e.words
    THEN [msg |-> "Failed to save to Notion", etype |-> "none"]
    ELSE IF "json" \in e.words \/ "parse" \in e.words
    THEN [msg |-> "Failed to process transcript", etype |-> "none"]
    ELSE IF "file" \in e.words \/ "path" \in e.words
    THEN [msg |-> "Failed to process audio file", etype |-> "none"]
    ELSE [msg |-> "Processing failed due to an unexpected error", etype |-> e.type]

\* mutant: the slice of a batch is one block too long
Batch_m(ch, at) == Slice(ch, at, Min(at + CHILD_BATCH_SIZE + 1, Len(ch)))

\* children[i : i + CHILD_BATCH_SIZE]
Batch(ch, at) == Slice(ch, at, Min(at + CHILD_BATCH_SIZE, Len(ch)))

\* mutant: the batch loop steps one block too far
NextBatch_m(at) == at + CHILD_BATCH_SIZE + 1

\* the step of range(0, len(children), CHILD_BATCH_SIZE)
NextBatch(at) == at + CHILD_BATCH_SIZE

\* mutant: polished_data.get("summary", "Untitled"), the fallback used
\* only when the key is absent
TitleOf_m(data) == IF data.summary = "NoKey" THEN "Untitled" ELSE data.summary

\* title_text = polished_data.get("summary") or "Untitled"
TitleOf(data) ==
    IF data.summary \in {"NoKey", ""} THEN "Untitled" ELSE data.summary

\* structured_chunks = chunk_text(structured_full, MAX_CHARS) or [""]
StructuredChunks(t) ==
    IF ChunksOf(t) = <<>> THEN <<Literal("")>> ELSE ChunksOf(t)

\* raw_first_chunk = chunk_text(raw_transcript, MAX_CHARS)[0] if raw_transcript else None
RawFirstChunk(t) == IF Truthy(t) THEN ChunksOf(t)[1] ELSE NoString

\* mutant: the heading is added whenever the raw transcript is non-empty
RawChildren_m(t) ==
    IF Truthy(t)
    THEN <<_heading_block(Literal("Raw Transcript (continued)"))>>
         \o [k \in 1..(Len(ChunksOf(t)) - 1) |-> _paragraph_block(ChunksOf(t)[k + 1])]
    ELSE <<>>

\* the children built from the raw transcript (lines 231-239)
RawChildren(t) ==
    IF Truthy(t) /\ Len(ChunksOf(t)) > 1
    THEN <<_heading_block(Literal("Raw Transcript (continued)"))>>
         \o [k \in 1..(Len(ChunksOf(t)) - 1) |-> _paragraph_block(ChunksOf(t)[k + 1])]
    ELSE <<>>

\* the children built from the structured chunks (line 118)
StructuredChildren(sc) == [k \in 1..(Len(sc) - 1) |-> _paragraph_block(sc[k + 1])]

\* mutant: the re-raise leaves pipeline_blocking without running finally
ReraiseTo_m == "pb_done"

\* where control goes when a stage raises inside the try block, and when
\* the except clause re-raises
RaiseTo == "except"
ReraiseTo == "finally"

NoMetadata == [notion_page_url |-> NoUrl, notion_page_id |-> 0, title |-> "None"]
NoArchive == [dir |-> FALSE, files |-> {}, metadata |-> NoMetadata]

\* the steps of the local archive (lines 252-279), in order
ArchiveSteps == <<"mkdir", "write_raw", "write_polished", "write_metadata">>
ArchiveFile(step) ==
    CASE step = "write_raw"      -> "raw_transcript.txt"
      [] step = "write_polished" -> "polished.json"
      [] step = "write_metadata" -> "metadata.json"
StepAfter(step) ==
    CASE step = "mkdir"          -> "write_raw"
      [] step = "write_raw"      -> "write_polished"
      [] step = "write_polished" -> "write_metadata"
      [] step = "write_metadata" -> "return"

\* what bot.send_message may do: deliver and return, fail without delivering,
\* or deliver and still raise (the acknowledgement is lost)
SendOutcomes == {"delivered", "failed", "delivered_then_raised"}

PipeIdle ==
    /\ pc = "idle"
    /\ audio_exists = FALSE
    /\ raw_transcript = "None"
    /\ polished_data = NoPayload
    /\ title_text = "None"
    /\ structured_chunks = <<>>
    /\ raw_first_chunk = NoString
    /\ page_id = 0
    /\ page_url = NoUrl
    /\ children = <<>>
    /\ batch_i = 0
    /\ exc = NoExc
    /\ result = NoResult
    /\ store = <<>>
    /\ archive = NoArchive
    /\ calls = <<>>
    /\ sent = <<>>
    /\ remove_calls = 0

ChunkIdle ==
    /\ text = <<>>
    /\ max_chars = 0
    /\ start = 0
    /\ chunks = <<>>
    /\ cuts = <<>>
    /\ cpc = "idle"

----------------------------------------------------------------------------
(* journal_date: datetimes, zones and inputs *)

\* seconds of timedelta(days=1)
DAY == 86400

(* Bounds of journal_date's input space *)
MaxDays == 3        \* calendar days enumerated: 1..MaxDays

\* A datetime: its wall-clock fields as seconds since 00:00:00 of day 0,
\* whether it carries a tzinfo, and the UTC offset of that tzinfo in seconds
Datetime(wall, aware, off) == [wall |-> wall, aware |-> aware, off |-> off]
NoDatetime == Datetime(0, FALSE, 0)

\* times of day enumerated: 00:00:00, 02:30:00, 03:00:00, 03:59:59, 04:00:00,
\* 04:00:01, 05:00:00, 23:00:00, 23:59:59
TimesOfDay == {0, 9000, 10800, 14399, 14400, 14401, 18000, 82800, 86399}

\* UTC offsets a tz-aware argument may carry: +00:00, +02:00
ArgOffsets == {0, 7200}

\* A zone: its standard offset, its daylight-saving offset, and the UTC
\* instants [from, to) between which daylight saving is in force
Zone(std, dst, from, to) == [std |-> std, dst |-> dst, from |-> from, to |-> to]
UTC == Zone(0, 0, 0, 0)
\* a zone with the rules of Europe/London: +00:00, +01:00 in summer, both
\* transitions at 01:00 UTC
London == Zone(0, 3600, 1 * DAY + 3600, 2 * DAY + 3600)
\* a zone west of Greenwich with daylight saving (-05:00 / -04:00, transitions
\* at 02:00 local time), and one east of it without (+05:30)
NewYork == Zone(-18000, -14400, 1 * DAY + 25200, 2 * DAY + 21600)
Kolkata == Zone(19800, 19800, 0, 0)
Zones == {UTC, London, NewYork, Kolkata}
NoZone == UTC

\* DEFAULT_CUTOFF = time(4, 0), in seconds of the day
DEFAULT_CUTOFF == 14400

\* cutoffs enumerated: 00:00, 04:00, 12:00, 23:59:59
Cutoffs == {0, DEFAULT_CUTOFF, 43200, 86399}

\* mutant: the zone's daylight saving is ignored
utcoffset_m(z, u) == z.std

\* the offset of zone z in force at the UTC instant u
utcoffset(z, u) == IF z.from <= u /\ u < z.to THEN z.dst ELSE z.std

\* message_dt_utc.replace(tzinfo=ZoneInfo("UTC")): the fields are kept
replace_tzinfo_utc(dt) == Datetime(dt.wall, TRUE, 0)

\* dt.astimezone(z) for an aware dt: the same instant, in the fields of z
astimezone(dt, z) ==
    LET u == dt.wall - dt.off
    IN  Datetime(u + utcoffset(z, u), TRUE, utcoffset(z, u))

\* dt.time() and dt.date(): the wall-clock fields, the tzinfo dropped
time_of(dt) == dt.wall % DAY
date_of(dt) == dt.wall \div DAY

\* mutant: a local time equal to the cutoff is shifted back as well
BeforeCutoff_m(dt, c) == time_of(dt) <= c

\* local_dt.time() < cutoff
BeforeCutoff(dt, c) == time_of(dt) < c

\* local_dt - timedelta(days=1): wall-clock arithmetic, the tzinfo kept
MinusOneDay(dt) == Datetime(dt.wall - DAY, dt.aware, dt.off)

NoDate == 0

DateIdle ==
    /\ given = NoDatetime
    /\ message_dt_utc = NoDatetime
    /\ tz = NoZone
    /\ cutoff = 0
    /\ local_dt = NoDatetime
    /\ date_result = NoDate
    /\ dpc = "idle"

\* journal_date as a function, for callers
journal_date(dt, z, c) ==
    LET utc   == IF dt.aware THEN astimezone(dt, UTC) ELSE replace_tzinfo_utc(dt)
        local == astimezone(utc, z)
    IN  date_of(IF BeforeCutoff(local, c) THEN MinusOneDay(local) ELSE local)

----------------------------------------------------------------------------
(* Concurrent jobs: inputs and the shared collaborators *)

\* the jobs in flight
Jobs == {1, 2}

\* update.message.date of the jobs' messages: whole seconds, UTC; two messages
\* of a user may carry the same second
MessageDts ==
    {Datetime(2 * DAY + 10800, TRUE, 0), Datetime(2 * DAY + 10801, TRUE, 0)}

\* str(uuid.uuid4())[:8]: eight hexadecimal digits drawn at random
EntryIds == {"1f0e9a3c", "b7d24e85"}
NoEntryId == "None"

\* the texts the jobs are run with
JobPolished == {"short", "long"}
JobRaw == {"two", "long"}

\* message_dt.strftime("%Y%m%d_%H%M%S"): the wall-clock fields, the tzinfo
\* dropped
strftime(dt) == [ymd |-> date_of(dt), hms |-> time_of(dt)]

\* Path("journal_entries") / f"{timestamp_str}_{entry_id}"
EntryDir(dt, id) == [timestamp_str |-> strftime(dt), entry_id |-> id]
NoDir == [timestamp_str |-> [ymd |-> 0, hms |-> 0], entry_id |-> NoEntryId]

\* a page of the shared database, and a block as the store holds it, with
\* the job whose request brought it
JobPage(j, date, structured, raw) ==
    [created_by |-> j, date |-> date, structured |-> structured, raw |-> raw,
     children |-> <<>>]
Sent(j, blocks) == [k \in 1..Len(blocks) |-> [by |-> j, block |-> blocks[k]]]

\* mutant: the batch is appended to the page created last in the database
TargetPage_m(own, db) == Len(db)

\* block_id=page_id: the page a job's append request names
TargetPage(own, db) == own

JobsIdle ==
    /\ jpc = [j \in Jobs |-> "idle"]
    /\ j_message_dt = [j \in Jobs |-> NoDatetime]
    /\ j_raw = [j \in Jobs |-> "None"]
    /\ j_polished = [j \in Jobs |-> "None"]
    /\ j_entry_id = [j \in Jobs |-> NoEntryId]
    /\ j_page_id = [j \in Jobs |-> 0]
    /\ j_children = [j \in Jobs |-> <<>>]
    /\ j_batch_i = [j \in Jobs |-> 0]
    /\ j_entry_dir = [j \in Jobs |-> NoDir]
    /\ jstore = <<>>
    /\ jdirs = {}
    /\ jfiles = {}

----------------------------------------------------------------------------------------------------------------------------------------
(* The audio files of concurrent jobs: inputs and helpers *)

\* src/telegram_bot.py
MaxClock == 2      \* seconds the wall clock may advance

Users == {"alice", "bob"}
FileUniqueIds == {"AgADbQ", "AgADcw"}
FileExts == {"ogg", "mp3"}

\* f"{VOICE_DIR}/{user}_{file_unique_id}_{timestamp}.{file_ext}", timestamp
\* being datetime.now().strftime("%Y%m%d_%H%M%S"): the clock in whole seconds
Filename(user, file_unique_id, timestamp, file_ext) ==
    [user |-> user, file_unique_id |-> file_unique_id,
     timestamp |-> timestamp, file_ext |-> file_ext]
NoFilename == Filename("None", "None", 0, "None")

AudioIdle ==
    /\ a_pc = [j \in Jobs |-> "idle"]
    /\ a_path = [j \in Jobs |-> NoFilename]
    /\ a_out = [j \in Jobs |-> "none"]
    /\ a_cleanup = [j \in Jobs |-> "none"]
    /\ voice_files = {}
    /\ clock = 0
    /\ handling = 0

----------------
(* chunk_text as a state machine *)

Texts == UNION {[1..n -> Chars] : n \in 0..MaxLen}

ChunkInit ==
    /\ text \in Texts
    /\ max_chars \in 0..MaxMaxChars
    /\ start = 0
    /\ chunks = <<>>
    /\ cuts = <<>>
    /\ cpc = "call"
    /\ PipeIdle
    /\ DateIdle
    /\ JobsIdle
    /\ AudioIdle

\* if max_chars <= 0: raise ValueError
chunk_text_raise ==
    /\ cpc = "call"
    /\ max_chars <= 0
    /\ cpc' = "raised"
    /\ UNCHANGED <<text, max_chars, start, chunks, cuts>>
    /\ UNCHANGED <<pvars, dvars, jvars, avars>>

\* mutant: the empty text is returned as one empty chunk
chunk_text_empty_m ==
    /\ cpc = "call"
    /\ max_chars > 0
    /\ Len(text) = 0
    /\ chunks' = <<<<>>>>
    /\ cpc' = "returned"
    /\ UNCHANGED <<text, max_chars, start, cuts>>
    /\ UNCHANGED <<pvars, dvars, jvars, avars>>

\* if length == 0: return []
chunk_text_empty ==
    /\ cpc = "call"
    /\ max_chars > 0
    /\ Len(text) = 0
    /\ cpc' = "returned"
    /\ UNCHANGED <<text, max_chars, start, chunks, cuts>>
    /\ UNCHANGED <<pvars, dvars, jvars, avars>>

\* chunks = []; start = 0
chunk_text_enter ==
    /\ cpc = "call"
    /\ max_chars > 0
    /\ Len(text) # 0
    /\ chunks' = <<>>
    /\ start' = 0
    /\ cpc' = "loop"
    /\ UNCHANGED <<text, max_chars, cuts>>
    /\ UNCHANGED <<pvars, dvars, jvars, avars>>

\* one iteration of: while start < length
chunk_text_loop ==
    /\ cpc = "loop"
    /\ start < Len(text)
    /\ LET it == ChunkIter(text, max_chars, start)
       IN  /\ chunks' = Append(chunks, it.chunk)
           /\ cuts' = Append(cuts, [kind |-> it.kind, lo |-> it.lo, hi |-> it.hi])
           /\ start' = it.next
           /\ cpc' = IF it.brk THEN "returned" ELSE "loop"
    /\ UNCHANGED <<text, max_chars>>
    /\ UNCHANGED <<pvars, dvars, jvars, avars>>

\* the loop condition fails: return chunks
chunk_text_return ==
    /\ cpc = "loop"
    /\ ~(start < Len(text))
    /\ cpc' = "returned"
    /\ UNCHANGED <<text, max_chars, start, chunks, cuts>>
    /\ UNCHANGED <<pvars, dvars, jvars, avars>>

ChunkNext ==
    \/ chunk_text_raise
    \/ chunk_text_empty
    \/ chunk_text_enter
    \/ chunk_text_loop
    \/ chunk_text_return

SpecChunk == ChunkInit /\ [][ChunkNext]_vars

----------------------------------------------------------------------------
(* The pipeline as a state machine: one job, from the moment                *)
(* handle_audio_message has downloaded the audio file                       *)

\* handle_audio_message has saved the audio file and told the user that
\* processing started; the database holds the pages of earlier runs
Init ==
    /\ ChunkIdle
    /\ DateIdle
    /\ JobsIdle
    /\ AudioIdle
    /\ pc = "received"
    /\ audio_exists = TRUE
    /\ raw_transcript = "None"
    /\ polished_data = NoPayload
    /\ title_text = "None"
    /\ structured_chunks = <<>>
    /\ raw_first_chunk = NoString
    /\ page_id = 0
    /\ page_url = NoUrl
    /\ children = <<>>
    /\ batch_i = 0
    /\ exc = NoExc
    /\ result = NoResult
    /\ store \in {[n \in 1..m |-> OldPage] : m \in 0..OldPages}
    /\ archive = NoArchive
    /\ calls = <<>>
    /\ sent = <<>>
    /\ remove_calls = 0

\* a call of a collaborator that raises e inside pipeline_blocking's try block
Fails(op, phase, at, e) ==
    /\ exc' = e
    /\ calls' = Append(calls, Call(op, phase, at, FALSE))
    /\ pc' = RaiseTo

\* asyncio.create_task(run_pipeline(...))
handle_audio_message ==
    /\ pc = "received"
    /\ pc' = "scheduled"
    /\ UNCHANGED <<audio_exists, raw_transcript, polished_data, locals, exc,
                   result, store, archive, calls, sent, remove_calls, cvars, dvars, jvars, avars>>

\* run_pipeline: loop.run_in_executor(None, pipeline_blocking, ...)
run_pipeline_start ==
    /\ pc = "scheduled"
    /\ pc' = "transcribe"
    /\ UNCHANGED <<audio_exists, raw_transcript, polished_data, locals, exc,
                   result, store, archive, calls, sent, remove_calls, cvars, dvars, jvars, avars>>

\* raw_transcript = transcribe_audio_only(audio_path)
transcribe_ok ==
    /\ pc = "transcribe"
    /\ audio_exists
    /\ \E t \in TextNames : raw_transcript' = t
    /\ calls' = Append(calls, Call("transcribe", "", 0, TRUE))
    /\ pc' = "polish"
    /\ UNCHANGED <<audio_exists, polished_data, locals, exc, result, store,
                   archive, sent, remove_calls, cvars, dvars, jvars, avars>>

transcribe_fail ==
    /\ pc = "transcribe"
    /\ \E e \in TranscriptionErrors(audio_exists) : Fails("transcribe", "", 0, e)
    /\ UNCHANGED <<audio_exists, raw_transcript, polished_data, locals, result,
                   store, archive, sent, remove_calls, cvars, dvars, jvars, avars>>

\* polished_data = process_transcript(raw_transcript)
polish_ok ==
    /\ pc = "polish"
    /\ \E d \in PolishedPayloads : polished_data' = d
    /\ calls' = Append(calls, Call("process", "", 0, TRUE))
    /\ pc' = "push"
    /\ UNCHANGED <<audio_exists, raw_transcript, locals, exc, result, store,
                   archive, sent, remove_calls, cvars, dvars, jvars, avars>>

polish_fail ==
    /\ pc = "polish"
    /\ \E e \in PolishingErrors : Fails("process", "", 0, e)
    /\ UNCHANGED <<audio_exists, raw_transcript, polished_data, locals, result,
                   store, archive, sent, remove_calls, cvars, dvars, jvars, avars>>

\* create_entry_from_memory, lines 199-218: title, chunks, first raw chunk;
\* polished_data["polished"] raises KeyError when the key is absent
push_prepare ==
    /\ pc = "push"
    /\ IF polished_data.polished = "NoKey"
       THEN /\ exc' = Exc("prepare", "KeyError", {})
            /\ pc' = RaiseTo
            /\ UNCHANGED <<title_text, structured_chunks, raw_first_chunk>>
       ELSE /\ title_text' = TitleOf(polished_data)
            /\ structured_chunks' = StructuredChunks(polished_data.polished)
            /\ raw_first_chunk' = RawFirstChunk(raw_transcript)
            /\ pc' = "create"
            /\ exc' = exc
    /\ UNCHANGED <<audio_exists, raw_transcript, polished_data, page_id, page_url,
                   children, batch_i, result, store, archive, calls, sent,
                   remove_calls, cvars, dvars, jvars, avars>>

\* _create_page_with_chunks: create_journal_entry (client.pages.create), then
\* children = the blocks of structured_chunks[1:]
create_ok ==
    /\ pc = "create"
    /\ store' = Append(store, Page(Literal(title_text), structured_chunks[1],
                                   raw_first_chunk))
    /\ page_id' = Len(store) + 1
    /\ page_url' = Url(Len(store) + 1)
    /\ children' = StructuredChildren(structured_chunks)
    /\ batch_i' = 0
    /\ calls' = Append(calls, Call("pages.create", "", 0, TRUE))
    /\ pc' = "append_structured"
    /\ UNCHANGED <<audio_exists, raw_transcript, polished_data, title_text,
                   structured_chunks, raw_first_chunk, exc, result, archive,
                   sent, remove_calls, cvars, dvars, jvars, avars>>

create_fail ==
    /\ pc = "create"
    /\ \E e \in StoreErrors("create") : Fails("pages.create", "", 0, e)
    /\ UNCHANGED <<audio_exists, raw_transcript, polished_data, locals, result,
                   store, archive, sent, remove_calls, cvars, dvars, jvars, avars>>

\* client.blocks.children.append(block_id=page_id, children=children[i:i+50])
AppendOk(phase) ==
    /\ pc = phase
    /\ batch_i < Len(children)
    /\ store' = [store EXCEPT ![page_id].children = @ \o Batch(children, batch_i)]
    /\ calls' = Append(calls, Call("blocks.children.append", phase, batch_i, TRUE))
    /\ batch_i' = NextBatch(batch_i)
    /\ UNCHANGED <<pc, audio_exists, raw_transcript, polished_data, title_text,
                   structured_chunks, raw_first_chunk, page_id, page_url,
                   children, exc, result, archive, sent, remove_calls, cvars, dvars, jvars, avars>>

\* mutant: a failed batch is logged and the loop goes on with the next one
AppendFail_m(phase) ==
    /\ pc = phase
    /\ batch_i < Len(children)
    /\ calls' = Append(calls, Call("blocks.children.append", phase, batch_i, FALSE))
    /\ batch_i' = NextBatch(batch_i)
    /\ UNCHANGED <<pc, audio_exists, raw_transcript, polished_data, title_text,
                   structured_chunks, raw_first_chunk, page_id, page_url,
                   children, exc, result, store, archive, sent, remove_calls,
                   cvars, dvars, jvars, avars>>

AppendFail(phase) ==
    /\ pc = phase
    /\ batch_i < Len(children)
    /\ \E e \in StoreErrors(phase) :
          Fails("blocks.children.append", phase, batch_i, e)
    /\ UNCHANGED <<audio_exists, raw_transcript, polished_data, locals, result,
                   store, archive, sent, remove_calls, cvars, dvars, jvars, avars>>

\* the loop of _create_page_with_chunks (lines 120-124)
append_structured_ok == AppendOk("append_structured")
append_structured_fail == AppendFail("append_structured")

\* the loop is over: return page_id, page["url"]; then lines 231-239 build
\* the children of the raw transcript
append_structured_done ==
    /\ pc = "append_structured"
    /\ ~(batch_i < Len(children))
    /\ children' = RawChildren(raw_transcript)
    /\ batch_i' = 0
    /\ pc' = "append_raw"
    /\ UNCHANGED <<audio_exists, raw_transcript, polished_data, title_text,
                   structured_chunks, raw_first_chunk, page_id, page_url, exc,
                   result, store, archive, calls, sent, remove_calls, cvars, dvars, jvars, avars>>

\* the loop of create_entry_from_memory (lines 242-246)
append_raw_ok == AppendOk("append_raw")
append_raw_fail == AppendFail("append_raw")

append_raw_done ==
    /\ pc = "append_raw"
    /\ ~(batch_i < Len(children))
    /\ pc' = "mkdir"
    /\ UNCHANGED <<audio_exists, raw_transcript, polished_data, locals, exc,
                   result, store, archive, calls, sent, remove_calls, cvars, dvars, jvars, avars>>

IsArchiveStep(step) == \E n \in 1..Len(ArchiveSteps) : ArchiveSteps[n] = step

\* entry_dir.mkdir, then the three write_text calls; after the last one
\* create_entry_from_memory returns (page_url, entry_dir) and pipeline_blocking
\* returns notion_url
archive_ok ==
    /\ IsArchiveStep(pc)
    /\ archive' =
          IF pc = "mkdir" THEN [archive EXCEPT !.dir = TRUE]
          ELSE IF pc = "write_metadata"
          THEN [archive EXCEPT
                   !.files = @ \cup {ArchiveFile(pc)},
                   !.metadata = [notion_page_url |-> page_url,
                                 notion_page_id |-> page_id,
                                 title |-> title_text]]
          ELSE [archive EXCEPT !.files = @ \cup {ArchiveFile(pc)}]
    /\ calls' = Append(calls, Call(pc, "", 0, TRUE))
    /\ result' = IF StepAfter(pc) = "return" THEN ReturnedUrl(page_url) ELSE result
    /\ pc' = IF StepAfter(pc) = "return" THEN "finally" ELSE StepAfter(pc)
    /\ UNCHANGED <<audio_exists, raw_transcript, polished_data, locals, exc,
                   store, sent, remove_calls, cvars, dvars, jvars, avars>>

archive_fail ==
    /\ IsArchiveStep(pc)
    /\ \E e \in ArchiveErrors(pc) : Fails(pc, "", 0, e)
    /\ UNCHANGED <<audio_exists, raw_transcript, polished_data, locals, result,
                   store, archive, sent, remove_calls, cvars, dvars, jvars, avars>>

\* except Exception as exc: logging.error(...); raise
pipeline_except ==
    /\ pc = "except"
    /\ result' = Raised(exc)
    /\ pc' = ReraiseTo
    /\ UNCHANGED <<audio_exists, raw_transcript, polished_data, locals, exc,
                   store, archive, calls, sent, remove_calls, cvars, dvars, jvars, avars>>

\* mutant: the OSError of os.remove is not caught and replaces the outcome
pipeline_finally_m ==
    /\ pc = "finally"
    /\ IF audio_exists
       THEN \E ok \in BOOLEAN :
               /\ audio_exists' = ~ok
               /\ calls' = Append(calls, Call("os.remove", "", 0, ok))
               /\ remove_calls' = remove_calls + 1
               /\ result' = IF ok THEN result
                            ELSE Raised(Exc("cleanup", "OSError", {"file"}))
       ELSE UNCHANGED <<audio_exists, calls, remove_calls, result>>
    /\ pc' = "pb_done"
    /\ UNCHANGED <<raw_transcript, polished_data, locals, exc, store,
                   archive, sent, cvars, dvars, jvars, avars>>

\* finally: if os.path.exists(audio_path): os.remove(audio_path), an OSError
\* of which is logged and dropped; then the return or the raise completes
pipeline_finally ==
    /\ pc = "finally"
    /\ IF audio_exists
       THEN \E ok \in BOOLEAN :
               /\ audio_exists' = ~ok
               /\ calls' = Append(calls, Call("os.remove", "", 0, ok))
               /\ remove_calls' = remove_calls + 1
       ELSE UNCHANGED <<audio_exists, calls, remove_calls>>
    /\ pc' = "pb_done"
    /\ UNCHANGED <<raw_transcript, polished_data, locals, exc, result, store,
                   archive, sent, cvars, dvars, jvars, avars>>

\* bot.send_message(text) with the given outcome
Sends(m, outcome) ==
    /\ sent' = IF outcome = "failed" THEN sent ELSE Append(sent, m)
    /\ calls' = Append(calls, Call("send_message", m.kind, 0, outcome = "delivered"))

\* run_pipeline, pipeline_blocking returned: send the success message; an
\* exception of send_message is caught by the except clause of run_pipeline
run_pipeline_notify_success ==
    /\ pc = "pb_done"
    /\ result.kind = "returned"
    /\ \E outcome \in SendOutcomes :
          /\ Sends([kind |-> "success", url |-> result.url,
                    msg |-> "Journal entry saved to Notion!", etype |-> "none"],
                   outcome)
          /\ IF outcome = "delivered"
             THEN pc' = "task_done" /\ exc' = exc
             ELSE pc' = "run_except" /\ exc' \in TelegramErrors
    /\ UNCHANGED <<audio_exists, raw_transcript, polished_data, locals, result,
                   store, archive, remove_calls, cvars, dvars, jvars, avars>>

\* run_pipeline, pipeline_blocking raised: except Exception as exc
run_pipeline_catch ==
    /\ pc = "pb_done"
    /\ result.kind = "raised"
    /\ exc' = result.exc
    /\ pc' = "run_except"
    /\ UNCHANGED <<audio_exists, raw_transcript, polished_data, locals, result,
                   store, archive, calls, sent, remove_calls, cvars, dvars, jvars, avars>>

\* error_msg = get_error_message(exc); bot.send_message(text=error_msg); an
\* exception raised here leaves the task, which nobody awaits
run_pipeline_notify_failure ==
    /\ pc = "run_except"
    /\ \E outcome \in SendOutcomes :
          /\ Sends([kind |-> "failure", url |-> NoUrl,
                    msg |-> get_error_message(exc).msg,
                    etype |-> get_error_message(exc).etype],
                   outcome)
          /\ pc' = IF outcome = "delivered" THEN "task_done" ELSE "task_failed"
    /\ UNCHANGED <<audio_exists, raw_transcript, polished_data, locals, exc,
                   result, store, archive, remove_calls, cvars, dvars, jvars, avars>>

Next ==
    \/ handle_audio_message
    \/ run_pipeline_start
    \/ transcribe_ok
    \/ transcribe_fail
    \/ polish_ok
    \/ polish_fail
    \/ push_prepare
    \/ create_ok
    \/ create_fail
    \/ append_structured_ok
    \/ append_structured_fail
    \/ append_structured_done
    \/ append_raw_ok
    \/ append_raw_fail
    \/ append_raw_done
    \/ archive_ok
    \/ archive_fail
    \/ pipeline_except
    \/ pipeline_finally
    \/ run_pipeline_notify_success
    \/ run_pipeline_catch
    \/ run_pipeline_notify_failure

Spec == Init /\ [][Next]_vars

\* The same run under the scheduling the code relies on: the event loop runs
\* the task it created, the executor runs pipeline_blocking, and every
\* collaborator call returns or raises, so a step that can be taken is taken
SpecLive == Init /\ [][Next]_vars /\ WF_vars(Next)

----------------------------------------------------------------------------
(* journal_date as a state machine *)

\* the arguments: a naive datetime, or an aware one in some offset; a zone;
\* a cutoff
Arguments ==
    {Datetime(d * DAY + t, FALSE, 0) : d \in 1..MaxDays, t \in TimesOfDay}
    \cup {Datetime(d * DAY + t, TRUE, o) :
              d \in 1..MaxDays, t \in TimesOfDay, o \in ArgOffsets}

DateInit ==
    /\ ChunkIdle
    /\ PipeIdle
    /\ JobsIdle
    /\ AudioIdle
    /\ given \in Arguments
    /\ message_dt_utc = given
    /\ tz \in Zones
    /\ cutoff \in Cutoffs
    /\ local_dt = NoDatetime
    /\ date_result = NoDate
    /\ dpc = "call"

\* if message_dt_utc.tzinfo is None: replace(tzinfo=UTC)
journal_date_naive ==
    /\ dpc = "call"
    /\ ~message_dt_utc.aware
    /\ message_dt_utc' = replace_tzinfo_utc(message_dt_utc)
    /\ dpc' = "normalized"
    /\ UNCHANGED <<given, tz, cutoff, local_dt, date_result>>
    /\ UNCHANGED <<cvars, pvars, jvars, avars>>

\* else: message_dt_utc.astimezone(UTC)
journal_date_aware ==
    /\ dpc = "call"
    /\ message_dt_utc.aware
    /\ message_dt_utc' = astimezone(message_dt_utc, UTC)
    /\ dpc' = "normalized"
    /\ UNCHANGED <<given, tz, cutoff, local_dt, date_result>>
    /\ UNCHANGED <<cvars, pvars, jvars, avars>>

\* local_dt = message_dt_utc.astimezone(tz)
journal_date_localize ==
    /\ dpc = "normalized"
    /\ local_dt' = astimezone(message_dt_utc, tz)
    /\ dpc' = "local"
    /\ UNCHANGED <<given, message_dt_utc, tz, cutoff, date_result>>
    /\ UNCHANGED <<cvars, pvars, jvars, avars>>

\* if local_dt.time() < cutoff: local_dt -= timedelta(days=1)
journal_date_shift ==
    /\ dpc = "local"
    /\ BeforeCutoff(local_dt, cutoff)
    /\ local_dt' = MinusOneDay(local_dt)
    /\ dpc' = "return"
    /\ UNCHANGED <<given, message_dt_utc, tz, cutoff, date_result>>
    /\ UNCHANGED <<cvars, pvars, jvars, avars>>

\* the condition is false
journal_date_keep ==
    /\ dpc = "local"
    /\ ~BeforeCutoff(local_dt, cutoff)
    /\ dpc' = "return"
    /\ UNCHANGED <<given, message_dt_utc, tz, cutoff, local_dt, date_result>>
    /\ UNCHANGED <<cvars, pvars, jvars, avars>>

\* return local_dt.date()
journal_date_return ==
    /\ dpc = "return"
    /\ date_result' = date_of(local_dt)
    /\ dpc' = "returned"
    /\ UNCHANGED <<given, message_dt_utc, tz, cutoff, local_dt>>
    /\ UNCHANGED <<cvars, pvars, jvars, avars>>

DateNext ==
    \/ journal_date_naive
    \/ journal_date_aware
    \/ journal_date_localize
    \/ journal_date_shift
    \/ journal_date_keep
    \/ journal_date_return

SpecDate == DateInit /\ [][DateNext]_vars

----------------------------------------------------------------------------
(* Two jobs of one user running create_entry_from_memory at the same time,  *)
(* each in its own worker thread, one collaborator call per step            *)

JobsInit ==
    /\ ChunkIdle
    /\ PipeIdle
    /\ DateIdle
    /\ jpc = [j \in Jobs |-> "push"]
    /\ j_message_dt \in [Jobs -> MessageDts]
    /\ j_raw \in [Jobs -> JobRaw]
    /\ j_polished \in [Jobs -> JobPolished]
    /\ j_entry_id = [j \in Jobs |-> NoEntryId]
    /\ j_page_id = [j \in Jobs |-> 0]
    /\ j_children = [j \in Jobs |-> <<>>]
    /\ j_batch_i = [j \in Jobs |-> 0]
    /\ j_entry_dir = [j \in Jobs |-> NoDir]
    /\ jstore = <<>>
    /\ jdirs = {}
    /\ jfiles = {}
    /\ AudioIdle

\* lines 199-200: entry_id = str(uuid.uuid4())[:8]
job_entry_id(j) ==
    /\ jpc[j] = "push"
    /\ \E id \in EntryIds : j_entry_id' = [j_entry_id EXCEPT ![j] = id]
    /\ jpc' = [jpc EXCEPT ![j] = "create"]
    /\ UNCHANGED <<j_message_dt, j_raw, j_polished, j_page_id, j_children,
                   j_batch_i, j_entry_dir, jstore, jdirs, jfiles>>
    /\ UNCHANGED <<cvars, pvars, dvars, avars>>

\* lines 203-225 and 108-118: client.pages.create with the first chunks and
\* the journal date; children = the blocks of structured_chunks[1:]
job_create_ok(j) ==
    /\ jpc[j] = "create"
    /\ jstore' = Append(jstore,
                        JobPage(j,
                                journal_date(j_message_dt[j], London, DEFAULT_CUTOFF),
                                StructuredChunks(j_polished[j])[1],
                                RawFirstChunk(j_raw[j])))
    /\ j_page_id' = [j_page_id EXCEPT ![j] = Len(jstore) + 1]
    /\ j_children' = [j_children EXCEPT
                         ![j] = StructuredChildren(StructuredChunks(j_polished[j]))]
    /\ j_batch_i' = [j_batch_i EXCEPT ![j] = 0]
    /\ jpc' = [jpc EXCEPT ![j] = "append_structured"]
    /\ UNCHANGED <<j_message_dt, j_raw, j_polished, j_entry_id, j_entry_dir,
                   jdirs, jfiles>>
    /\ UNCHANGED <<cvars, pvars, dvars, avars>>

\* a collaborator call of the job raises: create_entry_from_memory is left
job_call_fails(j) ==
    /\ \/ jpc[j] = "create"
       \/ jpc[j] \in {"append_structured", "append_raw"}
             /\ j_batch_i[j] < Len(j_children[j])
       \/ IsArchiveStep(jpc[j])
    /\ jpc' = [jpc EXCEPT ![j] = "raised"]
    /\ UNCHANGED <<j_message_dt, j_raw, j_polished, j_entry_id, j_page_id,
                   j_children, j_batch_i, j_entry_dir, jstore, jdirs, jfiles>>
    /\ UNCHANGED <<cvars, pvars, dvars, avars>>

\* lines 120-124 and 242-246:
\* client.blocks.children.append(block_id=page_id, children=children[i:i+50])
job_append_ok(j) ==
    /\ jpc[j] \in {"append_structured", "append_raw"}
    /\ j_batch_i[j] < Len(j_children[j])
    /\ LET block_id == TargetPage(j_page_id[j], jstore)
       IN  jstore' = [jstore EXCEPT
                        ![block_id].children =
                            @ \o Sent(j, Batch(j_children[j], j_batch_i[j]))]
    /\ j_batch_i' = [j_batch_i EXCEPT ![j] = NextBatch(@)]
    /\ UNCHANGED <<jpc, j_message_dt, j_raw, j_polished, j_entry_id, j_page_id,
                   j_children, j_entry_dir, jdirs, jfiles>>
    /\ UNCHANGED <<cvars, pvars, dvars, avars>>

\* the loop of the structured blocks is over: lines 231-239 build the
\* children of the raw transcript
job_append_structured_done(j) ==
    /\ jpc[j] = "append_structured"
    /\ ~(j_batch_i[j] < Len(j_children[j]))
    /\ j_children' = [j_children EXCEPT ![j] = RawChildren(j_raw[j])]
    /\ j_batch_i' = [j_batch_i EXCEPT ![j] = 0]
    /\ jpc' = [jpc EXCEPT ![j] = "append_raw"]
    /\ UNCHANGED <<j_message_dt, j_raw, j_polished, j_entry_id, j_page_id,
                   j_entry_dir, jstore, jdirs, jfiles>>
    /\ UNCHANGED <<cvars, pvars, dvars, avars>>

\* the loop of the raw blocks is over
job_append_raw_done(j) ==
    /\ jpc[j] = "append_raw"
    /\ ~(j_batch_i[j] < Len(j_children[j]))
    /\ jpc' = [jpc EXCEPT ![j] = "mkdir"]
    /\ UNCHANGED <<j_message_dt, j_raw, j_polished, j_entry_id, j_page_id,
                   j_children, j_batch_i, j_entry_dir, jstore, jdirs, jfiles>>
    /\ UNCHANGED <<cvars, pvars, dvars, avars>>

\* lines 253-255: entry_dir = journal_entries/{timestamp_str}_{entry_id};
\* entry_dir.mkdir(parents=True, exist_ok=True)
job_mkdir(j) ==
    /\ jpc[j] = "mkdir"
    /\ LET entry_dir == EntryDir(j_message_dt[j], j_entry_id[j])
       IN  /\ j_entry_dir' = [j_entry_dir EXCEPT ![j] = entry_dir]
           /\ jdirs' = jdirs \cup {entry_dir}
    /\ jpc' = [jpc EXCEPT ![j] = StepAfter("mkdir")]
    /\ UNCHANGED <<j_message_dt, j_raw, j_polished, j_entry_id, j_page_id,
                   j_children, j_batch_i, jstore, jfiles>>
    /\ UNCHANGED <<cvars, pvars, dvars, avars>>

\* lines 258-279: write_text creates the file or replaces its content; after
\* the last one create_entry_from_memory returns
job_write(j) ==
    /\ jpc[j] \in {"write_raw", "write_polished", "write_metadata"}
    /\ jfiles' =
          {f \in jfiles : ~(f.dir = j_entry_dir[j] /\ f.name = ArchiveFile(jpc[j]))}
          \cup {[dir |-> j_entry_dir[j], name |-> ArchiveFile(jpc[j]), by |-> j]}
    /\ jpc' = [jpc EXCEPT
                  ![j] = IF StepAfter(@) = "return" THEN "returned" ELSE StepAfter(@)]
    /\ UNCHANGED <<j_message_dt, j_raw, j_polished, j_entry_id, j_page_id,
                   j_children, j_batch_i, j_entry_dir, jstore, jdirs>>
    /\ UNCHANGED <<cvars, pvars, dvars, avars>>

JobsNext ==
    \E j \in Jobs :
        \/ job_entry_id(j)
        \/ job_create_ok(j)
        \/ job_call_fails(j)
        \/ job_append_ok(j)
        \/ job_append_structured_done(j)
        \/ job_append_raw_done(j)
        \/ job_mkdir(j)
        \/ job_write(j)

SpecJobs == JobsInit /\ [][JobsNext]_vars

----------------------------------------------------------------------------
(* Two voice messages, each handled by handle_audio_message and then run   *)
(* by its own task; the dispatcher handles one update at a time            *)
(* (Application.builder().build(): no concurrent updates), the tasks run   *)
(* pipeline_blocking in the executor's threads. The handler is followed    *)
(* for the messages whose download and notice succeed.                     *)

AudioInit ==
    /\ a_pc = [j \in Jobs |-> "queued"]
    /\ a_path = [j \in Jobs |-> NoFilename]
    /\ a_out = [j \in Jobs |-> "none"]
    /\ a_cleanup = [j \in Jobs |-> "none"]
    /\ voice_files = {}
    /\ clock = 0
    /\ handling = 0
    /\ ChunkIdle
    /\ PipeIdle
    /\ DateIdle
    /\ JobsIdle

\* time passes
clock_tick ==
    /\ clock < MaxClock
    /\ clock' = clock + 1
    /\ UNCHANGED <<a_pc, a_path, a_out, a_cleanup, voice_files, handling>>
    /\ UNCHANGED <<cvars, pvars, dvars, jvars>>

\* handle_audio_message, up to the first await: user, file_unique_id and
\* file_ext come with the update, timestamp from the clock
handle_audio_message_filename(j) ==
    /\ a_pc[j] = "queued"
    /\ handling = 0
    /\ \E user \in Users, file_unique_id \in FileUniqueIds, file_ext \in FileExts :
          a_path' = [a_path EXCEPT ![j] = Filename(user, file_unique_id, clock, file_ext)]
    /\ a_pc' = [a_pc EXCEPT ![j] = "download"]
    /\ handling' = j
    /\ UNCHANGED <<a_out, a_cleanup, voice_files, clock>>
    /\ UNCHANGED <<cvars, pvars, dvars, jvars>>

\* await tg_file.download_to_drive(filename): the file is created, or written
\* over if the path exists
handle_audio_message_download(j) ==
    /\ a_pc[j] = "download"
    /\ voice_files' = voice_files \cup {a_path[j]}
    /\ a_pc' = [a_pc EXCEPT ![j] = "notice"]
    /\ UNCHANGED <<a_path, a_out, a_cleanup, clock, handling>>
    /\ UNCHANGED <<cvars, pvars, dvars, jvars>>

\* the notice is sent, asyncio.create_task(run_pipeline(filename, ...)), and
\* the handler returns
handle_audio_message_create_task(j) ==
    /\ a_pc[j] = "notice"
    /\ a_pc' = [a_pc EXCEPT ![j] = "transcribe"]
    /\ handling' = 0
    /\ UNCHANGED <<a_path, a_out, a_cleanup, voice_files, clock>>
    /\ UNCHANGED <<cvars, pvars, dvars, jvars>>

\* pipeline_blocking: transcribe_audio raises FileNotFoundError if
\* os.path.isfile(file_path) is false, else opens the file and calls the
\* backend, which answers or raises
pipeline_blocking_transcribe(j) ==
    /\ a_pc[j] = "transcribe"
    /\ IF a_path[j] \notin voice_files
       THEN /\ a_out' = [a_out EXCEPT ![j] = "FileNotFoundError"]
            /\ a_pc' = [a_pc EXCEPT ![j] = "finally"]
       ELSE \E ok \in BOOLEAN :
               /\ a_out' = [a_out EXCEPT ![j] = IF ok THEN @ ELSE "stage_error"]
               /\ a_pc' = [a_pc EXCEPT ![j] = IF ok THEN "stages" ELSE "finally"]
    /\ UNCHANGED <<a_path, a_cleanup, voice_files, clock, handling>>
    /\ UNCHANGED <<cvars, pvars, dvars, jvars>>

\* pipeline_blocking: polishing and push, which return the URL or raise
pipeline_blocking_stages(j) ==
    /\ a_pc[j] = "stages"
    /\ \E ok \in BOOLEAN :
          a_out' = [a_out EXCEPT ![j] = IF ok THEN "returned" ELSE "stage_error"]
    /\ a_pc' = [a_pc EXCEPT ![j] = "finally"]
    /\ UNCHANGED <<a_path, a_cleanup, voice_files, clock, handling>>
    /\ UNCHANGED <<cvars, pvars, dvars, jvars>>

\* finally: if os.path.exists(audio_path): os.remove(audio_path), an OSError
\* of which is logged and dropped
pipeline_blocking_cleanup(j) ==
    /\ a_pc[j] = "finally"
    /\ IF a_path[j] \in voice_files
       THEN \E ok \in BOOLEAN :
               /\ voice_files' = IF ok THEN voice_files \ {a_path[j]} ELSE voice_files
               /\ a_cleanup' = [a_cleanup EXCEPT ![j] = IF ok THEN "removed" ELSE "failed"]
       ELSE /\ a_cleanup' = [a_cleanup EXCEPT ![j] = "absent"]
            /\ UNCHANGED voice_files
    /\ a_pc' = [a_pc EXCEPT ![j] = "done"]
    /\ UNCHANGED <<a_path, a_out, clock, handling>>
    /\ UNCHANGED <<cvars, pvars, dvars, jvars>>

AudioNext ==
    \/ clock_tick
    \/ \E j \in Jobs :
          \/ handle_audio_message_filename(j)
          \/ handle_audio_message_download(j)
          \/ handle_audio_message_create_task(j)
          \/ pipeline_blocking_transcribe(j)
          \/ pipeline_blocking_stages(j)
          \/ pipeline_blocking_cleanup(j)

SpecAudio == AudioInit /\ [][AudioNext]_vars

----------------------------------------------------------------------------
(* Operators used to state the pipeline's properties *)

StageOps ==
    {"transcribe", "process", "pages.create", "blocks.children.append",
     "mkdir", "write_raw", "write_polished", "write_metadata"}

\* the place of a collaborator call in the order of the stages
Rank(c) ==
    CASE c.op = "transcribe"     -> 1
      [] c.op = "process"        -> 2
      [] c.op = "pages.create"   -> 3
      [] c.op = "blocks.children.append" /\ c.phase = "append_structured" -> 4
      [] c.op = "blocks.children.append" /\ c.phase = "append_raw"        -> 5
      [] c.op = "mkdir"          -> 6
      [] c.op = "write_raw"      -> 7
      [] c.op = "write_polished" -> 8
      [] c.op = "write_metadata" -> 9

CallIdx == 1..Len(calls)
StageIdx == {n \in CallIdx : calls[n].op \in StageOps}
RemoveIdx == {n \in CallIdx : calls[n].op = "os.remove"}
FailedAppendIdx ==
    {n \in CallIdx : calls[n].op = "blocks.children.append" /\ ~calls[n].ok}
AckedBatches(phase) ==
    Cardinality({n \in CallIdx : /\ calls[n].op = "blocks.children.append"
                                 /\ calls[n].phase = phase
                                 /\ calls[n].ok})
OkCall(op) == \E n \in CallIdx : calls[n].op = op /\ calls[n].ok

\* number of requests range(0, n, CHILD_BATCH_SIZE) makes
NumBatches(n) == (n + CHILD_BATCH_SIZE - 1) \div CHILD_BATCH_SIZE

\* pipeline_blocking is still inside its try block
InStages ==
    pc \in {"transcribe", "polish", "push", "create", "append_structured",
            "append_raw", "mkdir", "write_raw", "write_polished",
            "write_metadata", "except"}
\* pipeline_blocking has returned or raised
PbDone == pc \in {"pb_done", "run_except", "task_done", "task_failed"}
\* the job's task is over
Terminal == pc \in {"task_done", "task_failed"}

SentIdx == 1..Len(sent)
FailureMessages == {sent[n] : n \in {m \in SentIdx : sent[m].kind = "failure"}}
SuccessMessages == {sent[n] : n \in {m \in SentIdx : sent[m].kind = "success"}}

\* the failure category of a stage, and the category a message names
StageCategory(origin) ==
    CASE origin = "transcription"     -> "Transcription"
      [] origin = "polishing"         -> "Polishing"
      [] origin = "create"            -> "Persistence"
      [] origin = "append_structured" -> "Persistence"
      [] origin = "append_raw"        -> "Persistence"
      [] origin = "archive"           -> "LocalArchive"
      [] OTHER                        -> "None"
MessageCategory(msg) ==
    CASE msg = "Failed to transcribe audio"   -> "Transcription"
      [] msg = "Failed to process transcript" -> "Polishing"
      [] msg = "Failed to save to Notion"     -> "Persistence"
      [] msg = "Failed to process audio file" -> "LocalArchive"
      [] OTHER                                -> "Uncategorized"

\* the blocks a complete run appends to its page, in order
ExpectedChildren ==
    StructuredChildren(StructuredChunks(polished_data.polished))
        \o RawChildren(raw_transcript)

\* C1 as claimed: when pipeline_blocking has returned or raised, the audio
\* file has been deleted exactly once (one removal was performed, the file is
\* gone).
C1_DeletedExactlyOnce ==
    PbDone =>
        /\ ~audio_exists
        /\ Cardinality({n \in RemoveIdx : calls[n].ok}) = 1

\* C1 as amended: no removal is attempted while a stage can still run; when
\* pipeline_blocking has returned or raised, exactly one os.remove call has
\* been made, after the last stage call, and the file is gone unless that one
\* call itself failed.
C1_OneRemovalAttempt ==
    /\ InStages => remove_calls = 0 /\ RemoveIdx = {} /\ audio_exists
    /\ PbDone =>
          /\ remove_calls = 1
          /\ Cardinality(RemoveIdx) = 1
          /\ \A n \in RemoveIdx :
                /\ \A m \in StageIdx : m < n
                /\ audio_exists = ~calls[n].ok

C1_Witness ==
    /\ Terminal
    /\ result.kind = "raised"
    /\ result.exc.origin = "append_raw"
    /\ AckedBatches("append_raw") = 1
    /\ ~audio_exists

\* C2: the stage calls of a run are made in stage order, none twice (an
\* append batch at most once), each only after all earlier stages completed
\* successfully, and none after a call that failed.
C2_SingleForwardPass ==
    /\ \A a \in StageIdx : \A b \in StageIdx :
          a < b =>
              /\ calls[a].ok
              /\ \/ Rank(calls[a]) < Rank(calls[b])
                 \/ /\ Rank(calls[a]) = Rank(calls[b])
                    /\ calls[a].op = "blocks.children.append"
                    /\ calls[a].at < calls[b].at
    /\ \A b \in StageIdx :
          /\ Rank(calls[b]) >= 2 => OkCall("transcribe")
          /\ Rank(calls[b]) >= 3 => OkCall("process")
          /\ Rank(calls[b]) >= 4 => OkCall("pages.create")
          /\ Rank(calls[b]) >= 5 =>
                AckedBatches("append_structured")
                    = NumBatches(Len(StructuredChildren(structured_chunks)))
          /\ Rank(calls[b]) >= 6 =>
                AckedBatches("append_raw")
                    = NumBatches(Len(RawChildren(raw_transcript)))
          /\ Rank(calls[b]) >= 7 => OkCall("mkdir")
          /\ Rank(calls[b]) >= 8 => OkCall("write_raw")
          /\ Rank(calls[b]) >= 9 => OkCall("write_polished")

C2_Witness ==
    /\ PbDone
    /\ result.kind = "raised"
    /\ result.exc.origin = "archive"
    /\ AckedBatches("append_structured") = 2
    /\ AckedBatches("append_raw") = 2
    /\ OkCall("write_raw")

\* C3: a failure of a stage is reported to the user in the category of that
\* stage, and the audio file is removed (as in C1: the one removal is made).
C3_CategoryMatchesStage ==
    Terminal /\ result.kind = "raised" /\ StageCategory(result.exc.origin) # "None" =>
        /\ \A m \in FailureMessages :
              MessageCategory(m.msg) = StageCategory(result.exc.origin)
        /\ remove_calls = 1

\* C4: when an append batch fails after the record was created, the run is
\* reported as a persistence failure, the record is still in the store and
\* nothing of the local archive is written.
C4_AppendFailureKeepsRecord ==
    Terminal /\ FailedAppendIdx # {} =>
        /\ result.kind = "raised"
        /\ \A m \in FailureMessages : MessageCategory(m.msg) = "Persistence"
        /\ page_id \in 1..Len(store)
        /\ ~store[page_id].archived
        /\ archive = NoArchive

\* The part of C4 that does not depend on how the failure is worded for the
\* user: the run raised the append's error, the record is still in the store
\* and nothing of the local archive is written.
AppendFailureLeavesRecord ==
    PbDone /\ FailedAppendIdx # {} =>
        /\ result.kind = "raised"
        /\ result.exc.origin \in {"append_structured", "append_raw"}
        /\ page_id \in 1..Len(store)
        /\ ~store[page_id].archived
        /\ archive = NoArchive

\* C5: success is reported only when the record was created by this run, every
\* structured and raw block was appended to it, in order, and the three
\* archive files were written; the URL reported is the URL the store issued
\* for the page this run created.
C5_SuccessIsComplete ==
    result.kind = "returned" \/ SuccessMessages # {} =>
        /\ OkCall("pages.create")
        /\ store # <<>>
        /\ store[Len(store)].title = Literal(title_text)
        /\ store[Len(store)].structured = StructuredChunks(polished_data.polished)[1]
        /\ store[Len(store)].children = ExpectedChildren
        /\ \A n \in 1..(Len(store) - 1) : store[n] = OldPage
        /\ archive.dir
        /\ archive.files = {"raw_transcript.txt", "polished.json", "metadata.json"}
        /\ archive.metadata.notion_page_url = Url(Len(store))
        /\ result = ReturnedUrl(Url(Len(store)))
        /\ \A m \in SuccessMessages : m.url = Url(Len(store))

C5_Witness ==
    /\ pc = "task_done"
    /\ SuccessMessages # {}
    /\ Len(store) = 2
    /\ Len(store[2].children) > 2 * CHILD_BATCH_SIZE

\* C6: a finished job has exactly one outcome reported: the success message
\* if pipeline_blocking returned, one failure message if it raised, never
\* both and never none.
C6_ExactlyOneOutcome ==
    Terminal =>
        /\ Len(sent) = 1
        /\ (sent[1].kind = "success") = (result.kind = "returned")

----------------------------------------------------------------------------
(* Operators used to state the chunker's properties *)

RECURSIVE Flatten(_)
Flatten(ss) == IF ss = <<>> THEN <<>> ELSE Head(ss) \o Flatten(Tail(ss))

\* s with the characters at the (0-based) positions in omit left out
RECURSIVE KeepFrom(_, _, _)
KeepFrom(s, i, omit) ==
    IF i >= Len(s) THEN <<>>
    ELSE (IF i \in omit THEN <<>> ELSE <<s[i + 1]>>) \o KeepFrom(s, i + 1, omit)

ChunkIdx == 1..Len(chunks)
Running == cpc \in {"loop", "returned"}
Returned == cpc = "returned"
SoftKinds == {"edge", "back"}

\* chunks k.. joined, a single space after every chunk that ended at a soft
\* cut and is followed by another chunk
RECURSIVE JoinSoftSpace(_)
JoinSoftSpace(k) ==
    IF k > Len(chunks) THEN <<>>
    ELSE chunks[k]
         \o (IF k < Len(chunks) /\ cuts[k].kind \in SoftKinds THEN <<" ">> ELSE <<>>)
         \o JoinSoftSpace(k + 1)

\* chunks k.. joined, the character the edge branch skipped put back after
\* every chunk that ended in that branch
RECURSIVE JoinEdgeChar(_)
JoinEdgeChar(k) ==
    IF k > Len(chunks) THEN <<>>
    ELSE chunks[k]
         \o (IF cuts[k].kind = "edge" THEN <<text[cuts[k].hi + 1]>> ELSE <<>>)
         \o JoinEdgeChar(k + 1)

\* (0-based) positions of text that the edge branch skipped
Omitted == {cuts[k].hi : k \in {j \in ChunkIdx : cuts[j].kind = "edge"}}

\* [a, b) is a maximal run of non-whitespace characters of text
IsToken(a, b) ==
    /\ 0 <= a /\ a < b /\ b <= Len(text)
    /\ \A i \in a..(b - 1) : ~isspace(text[i + 1])
    /\ (a = 0 \/ isspace(text[a]))
    /\ (b = Len(text) \/ isspace(text[b + 1]))

Tokens == {ab \in (0..Len(text)) \X (0..Len(text)) : IsToken(ab[1], ab[2])}

C8_RoundTripSoftSpace == Returned => JoinSoftSpace(1) = text

\* C8 as amended: joining the chunks, putting back after each chunk that was
\* cut where the window's right edge landed on whitespace the one character
\* skipped there, and nothing after backward cuts and hard cuts, reproduces
\* the text.
C8_RoundTripEdgeChar == Returned => JoinEdgeChar(1) = text

C8_Witness ==
    /\ Returned
    /\ \E k \in ChunkIdx : cuts[k].kind = "edge" /\ text[cuts[k].hi + 1] # " "
    /\ \E k \in ChunkIdx : cuts[k].kind = "back"

\* C9: the chunks are consecutive in-order slices of the text; between two
\* consecutive chunks (and after the last) at most one character is left out,
\* a character left out is whitespace, the concatenation of the chunks is the
\* text without exactly those characters, and it is the text itself when no
\* cut landed on whitespace at the window edge.
C9_Slices ==
    Running =>
        /\ \A k \in ChunkIdx :
              /\ cuts[k].lo < cuts[k].hi
              /\ chunks[k] = Slice(text, cuts[k].lo, cuts[k].hi)
        /\ (chunks # <<>> => cuts[1].lo = 0)
        /\ \A k \in 1..(Len(chunks) - 1) :
              LET gap == cuts[k + 1].lo - cuts[k].hi
              IN  /\ gap \in {0, 1}
                  /\ (gap = 1 => isspace(text[cuts[k].hi + 1]))
        /\ (Returned /\ chunks # <<>> =>
              LET rest == Len(text) - cuts[Len(chunks)].hi
              IN  /\ rest \in {0, 1}
                  /\ (rest = 1 => isspace(text[Len(text)]))
                  /\ Cardinality(Omitted) + Len(Flatten(chunks)) = Len(text)
                  /\ Flatten(chunks) = KeepFrom(text, 0, Omitted)
                  /\ (Omitted = {} => Flatten(chunks) = text))

C9_Witness ==
    /\ Returned
    /\ Len(chunks) >= 3
    /\ \E k \in 1..(Len(chunks) - 1) : cuts[k + 1].lo - cuts[k].hi = 1
    /\ \E k \in 1..(Len(chunks) - 1) : cuts[k + 1].lo - cuts[k].hi = 0

\* C10: a maximal run of non-whitespace characters no longer than max_chars
\* is never split across two chunks: a chunk boundary that falls strictly
\* inside such a run (as a hard cut does) falls inside a run longer than
\* max_chars.
C10_NoAvoidableSplit ==
    Returned =>
        \A t \in Tokens :
            \A k \in ChunkIdx :
                t[1] < cuts[k].hi /\ cuts[k].hi < t[2] => t[2] - t[1] > max_chars

\* the chunk boundaries that fall strictly inside the token [t[1], t[2])
CutsInside(t) == {k \in ChunkIdx : t[1] < cuts[k].hi /\ cuts[k].hi < t[2]}

----------------------------------------------------------------------------
(* Operators used to state journal_date's properties *)

DateReturned == dpc = "returned"

\* the UTC instant the argument denotes (a naive argument is taken as UTC)
Instant == IF given.aware THEN given.wall - given.off ELSE given.wall

\* whether daylight saving is in force in tz at that instant
InSummerTime == tz.from <= Instant /\ Instant < tz.to

\* the local wall-clock time in tz at that instant, and the UTC one
LocalWall == Instant + (IF InSummerTime THEN tz.dst ELSE tz.std)
UtcWall == Instant

\* the date the cutoff rule gives a wall-clock time
RuleDate(wall) == IF wall % DAY < cutoff THEN (wall \div DAY) - 1 ELSE wall \div DAY

\* C12: journal_date returns the local calendar date minus one day when the
\* local time of day is strictly earlier than the cutoff, and the local
\* calendar date itself when it equals the cutoff or is later.
C12_CutoffRule ==
    DateReturned =>
        /\ LocalWall % DAY < cutoff => date_result = (LocalWall \div DAY) - 1
        /\ LocalWall % DAY = cutoff => date_result = LocalWall \div DAY
        /\ LocalWall % DAY > cutoff => date_result = LocalWall \div DAY

\* cutoff 04:00, offset 0: 02:30Z of day 2 maps to day 1
C12_Witness ==
    /\ DateReturned
    /\ tz = UTC
    /\ cutoff = DEFAULT_CUTOFF
    /\ given = Datetime(2 * DAY + 9000, TRUE, 0)
    /\ date_result = 1

\* C13: the time compared with the cutoff and the date returned are those of
\* the local wall clock (the UTC instant plus the offset in force at that
\* instant, the daylight-saving offset while daylight saving is in force),
\* not those of UTC: where the two give different dates, the local one is
\* returned; in a zone at +1h in summer, 03:00Z is 04:00 local and, with
\* cutoff 04:00, maps to the same day.
C13_LocalWallClock ==
    /\ dpc \in {"local"} =>
          /\ local_dt.off = (IF InSummerTime THEN tz.dst ELSE tz.std)
          /\ local_dt.wall = Instant + local_dt.off
    /\ DateReturned =>
          /\ date_result \in {LocalWall \div DAY, (LocalWall \div DAY) - 1}
          /\ RuleDate(UtcWall) # RuleDate(LocalWall) => date_result = RuleDate(LocalWall)
          /\ (/\ tz = London
              /\ InSummerTime
              /\ cutoff = DEFAULT_CUTOFF
              /\ Instant % DAY = 10800) => date_result = Instant \div DAY

\* 03:00Z in summer time, London, cutoff 04:00: UTC would give the day before
C13_Witness ==
    /\ DateReturned
    /\ tz = London
    /\ InSummerTime
    /\ cutoff = DEFAULT_CUTOFF
    /\ Instant % DAY = 10800
    /\ RuleDate(UtcWall) = (Instant \div DAY) - 1
    /\ date_result = Instant \div DAY

----------------------------------------------------------------------------
(* Operators used to state the properties of concurrent jobs *)

\* the job has created its record / has made its archive directory
HasRecord(j) == j_page_id[j] # 0
HasDir(j) == j_entry_dir[j] # NoDir

\* all blocks a job run with the texts p and r appends to its record, in
\* order
BlocksOf ==
    [p \in JobPolished, r \in JobRaw |->
        StructuredChildren(StructuredChunks(p)) \o RawChildren(r)]
JobBlocks(j) == BlocksOf[j_polished[j], j_raw[j]]

\* each record was created by one job, two jobs hold two records, and the
\* children of a record were all sent by the job that created it and are a
\* prefix of that job's blocks, in their order
RecordsApart ==
    /\ \A j \in Jobs : HasRecord(j) =>
          /\ j_page_id[j] \in 1..Len(jstore)
          /\ jstore[j_page_id[j]].created_by = j
    /\ \A a \in Jobs : \A b \in Jobs :
          a # b /\ HasRecord(a) /\ HasRecord(b) => j_page_id[a] # j_page_id[b]
    /\ \A n \in 1..Len(jstore) :
          LET page == jstore[n]
              blocks == JobBlocks(page.created_by)
          IN  /\ Len(page.children) <= Len(blocks)
              /\ page.children = Sent(page.created_by,
                                      SubSeq(blocks, 1, Len(page.children)))

----------------------------------------------------------------------------
(* The pipeline's properties, continued *)

\* every error a collaborator of the pipeline can raise
AllErrors ==
    TranscriptionErrors(TRUE) \cup TranscriptionErrors(FALSE) \cup PolishingErrors
    \cup {Exc("prepare", "KeyError", {})}
    \cup StoreErrors("create") \cup StoreErrors("append_structured")
    \cup StoreErrors("append_raw")
    \cup UNION {ArchiveErrors(ArchiveSteps[n]) : n \in 1..Len(ArchiveSteps)}
    \cup TelegramErrors

\* the category get_error_message puts an error in
CategoryOf(e) == MessageCategory(get_error_message(e).msg)

\* C15: the text sent for a failed job is a function of the failure category
\* alone: any error of the same category as the one reported (in particular
\* any other uncategorized error, when the one reported is uncategorized)
\* would have produced the very same text.
C15_MessageByCategory ==
    \A n \in SentIdx :
        sent[n].kind = "failure" =>
            \A e \in AllErrors :
                CategoryOf(e) = MessageCategory(sent[n].msg) =>
                    /\ get_error_message(e).msg = sent[n].msg
                    /\ get_error_message(e).etype = sent[n].etype

\* The part of C15 that holds: each of the four categorized texts is fixed.
CategorizedTextFixed ==
    \A n \in SentIdx :
        sent[n].kind = "failure" /\ MessageCategory(sent[n].msg) # "Uncategorized" =>
            sent[n].etype = "none"

AppendPhases == {"append_structured", "append_raw"}

\* the list of overflow blocks each of the two loops is given
ChildrenOfPhase(phase) ==
    IF phase = "append_structured"
    THEN StructuredChildren(structured_chunks)
    ELSE RawChildren(raw_transcript)

\* the append requests of a loop, in the history of calls
AppendIdx(phase) ==
    {n \in CallIdx : calls[n].op = "blocks.children.append" /\ calls[n].phase = phase}

\* the batches of a loop that the store acknowledged, from call n on, joined
\* in the order of issue
RECURSIVE Issued(_, _)
Issued(phase, n) ==
    IF n > Len(calls) THEN <<>>
    ELSE (IF n \in AppendIdx(phase) /\ calls[n].ok
          THEN Batch(ChildrenOfPhase(phase), calls[n].at)
          ELSE <<>>)
         \o Issued(phase, n + 1)

\* the loop over the blocks of the phase has run to its end
LoopOver(phase) ==
    \/ pc = "mkdir"
    \/ OkCall("mkdir")
    \/ phase = "append_structured" /\ pc = "append_raw"

\* C16: the append requests of a list of overflow blocks are issued one after
\* another, each with at least one and at most CHILD_BATCH_SIZE blocks, each
\* starting where the one before ended; the batches joined in issue order are
\* a prefix of the list at every moment and the whole list once the loop is
\* over, and they are what the record holds.
C16_BatchesPartition ==
    structured_chunks # <<>> =>
    /\ \A phase \in AppendPhases :
          LET ch == ChildrenOfPhase(phase)
              joined == Issued(phase, 1)
          IN  /\ \A n \in AppendIdx(phase) :
                    /\ calls[n].at
                           = CHILD_BATCH_SIZE
                                 * Cardinality({m \in AppendIdx(phase) : m < n})
                    /\ Len(Batch(ch, calls[n].at)) >= 1
                    /\ Len(Batch(ch, calls[n].at)) <= CHILD_BATCH_SIZE
                    /\ \A m \in AppendIdx(phase) : m < n => calls[m].ok
              /\ Len(joined) <= Len(ch)
              /\ joined = SubSeq(ch, 1, Len(joined))
              /\ LoopOver(phase) => joined = ch
    /\ page_id # 0 =>
          store[page_id].children
              = Issued("append_structured", 1) \o Issued("append_raw", 1)

\* both loops are over, each after a full batch and a shorter last one
C16_Witness ==
    /\ pc = "mkdir"
    /\ Len(ChildrenOfPhase("append_structured")) = CHILD_BATCH_SIZE + 1
    /\ Len(ChildrenOfPhase("append_raw")) = CHILD_BATCH_SIZE + 2
    /\ Cardinality(AppendIdx("append_structured")) = 2
    /\ Cardinality(AppendIdx("append_raw")) = 2
    /\ Len(store[page_id].children) = 2 * CHILD_BATCH_SIZE + 3

\* the run raised out of the local archive, the record created and all
\* blocks appended
ArchiveFailed == result.kind = "raised" /\ result.exc.origin = "archive"

\* C17: when writing the local archive fails after the record was created
\* and all appends succeeded, the run is reported as a local-archive failure,
\* the record is still in the store and the audio file has been deleted.
C17_ArchiveFailure ==
    Terminal /\ ArchiveFailed =>
        /\ \A m \in FailureMessages : MessageCategory(m.msg) = "LocalArchive"
        /\ page_id \in 1..Len(store)
        /\ ~store[page_id].archived
        /\ ~audio_exists

\* The part of C17 that does not depend on how the failure is worded for the
\* user: the run raised the archive's error, the record is in the store with
\* all its blocks, no call other than create and append was made on the
\* store, and the one removal of the audio file was attempted.
ArchiveFailureLeavesRecord ==
    PbDone /\ ArchiveFailed =>
        /\ page_id \in 1..Len(store)
        /\ ~store[page_id].archived
        /\ store[page_id].children = ExpectedChildren
        /\ \A n \in CallIdx :
              calls[n].op \in StageOps \cup {"os.remove", "send_message"}
        /\ remove_calls = 1

----------------------------------------------------------------------------
(* The chunker's properties, continued *)

\* C18: for every max_chars > 0 the call with the empty text returns (it does
\* not raise, it does not enter the loop) the empty list, and the result of a
\* call is empty only if the text is empty.
C18_EmptyIffEmpty ==
    /\ Len(text) = 0 /\ max_chars > 0 /\ cpc # "call" =>
          cpc = "returned" /\ chunks = <<>>
    /\ Returned => (chunks = <<>> <=> Len(text) = 0)

C18_Witness ==
    /\ Returned
    /\ Len(text) = 0
    /\ max_chars > 1
    /\ chunks = <<>>

----------------------------------------------------------------------------
(* The pipeline's properties, continued *)

\* C19: the title computed from the polished payload, the title of the
\* record sent to the store and the title written to the archive metadata
\* are the same and never empty; it is "Untitled" when the payload has no
\* title or an empty one, and the payload's title otherwise.
C19_TitleNeverEmpty ==
    /\ title_text # "None" =>
          /\ title_text # ""
          /\ (polished_data.summary \in {"NoKey", ""} => title_text = "Untitled")
          /\ (polished_data.summary \notin {"NoKey", ""} =>
                  title_text = polished_data.summary)
    /\ page_id # 0 =>
          /\ store[page_id].title = Literal(title_text)
          /\ store[page_id].title # Literal("")
    /\ archive.metadata # NoMetadata =>
          /\ archive.metadata.title = title_text
          /\ archive.metadata.title # ""

\* a run that succeeded on a payload with an empty title
C19_Witness ==
    /\ pc = "task_done"
    /\ result.kind = "returned"
    /\ polished_data.summary = ""
    /\ store[page_id].title = Literal("Untitled")
    /\ archive.metadata.title = "Untitled"

\* the job's task is over and a message telling its outcome (the success
\* message if pipeline_blocking returned, a failure message if it raised) was
\* delivered to the user
OutcomeHanded ==
    /\ Terminal
    /\ \E n \in SentIdx : (sent[n].kind = "success") = (result.kind = "returned")

\* C20: every job that enters Transcribing eventually reaches a terminal
\* state with its outcome handed to the user.
C20_OutcomeEventuallyHanded == (pc = "transcribe") ~> OutcomeHanded

\* The part of C20 that holds: every job that enters Transcribing eventually
\* ends, its task finished; no job stays in a non-terminal state for ever.
EveryJobEnds == (pc = "transcribe") ~> Terminal

----------------------------------------------------------------------------
(* The chunker's properties: whitespace at a cut, emptiness, progress *)

\* the (0-based) position of the whitespace character the k-th chunk was cut
\* at: text[end] in the edge branch, text[last_break] in the backward branch
CutChar(k) == IF cuts[k].kind = "edge" THEN cuts[k].hi ELSE cuts[k].hi - 1

\* the chunks that hold the character at (0-based) position p of the text
Holders(p) == {j \in ChunkIdx : cuts[j].lo <= p /\ p < cuts[j].hi}

\* C21 as claimed: the whitespace character of a cut, whether the window's
\* right edge landed on it or it was found by searching backward, is consumed:
\* neither the chunk that ends at the cut nor the chunk that follows holds it.
C21_WhitespaceConsumed ==
    Running =>
        \A k \in ChunkIdx :
            cuts[k].kind \in SoftKinds =>
                /\ isspace(text[CutChar(k) + 1])
                /\ Holders(CutChar(k)) \cap {k, k + 1} = {}

\* C21 as amended: the whitespace character is consumed only when the window's
\* right edge lands on it: then no chunk holds it and the next chunk starts
\* right after it. A cut found by searching backward keeps its space, tab or
\* newline as the last character of the chunk that ends there; the next chunk
\* starts right after it and does not hold it.
C21_WhitespaceAtCut ==
    Running =>
        \A k \in ChunkIdx :
            /\ cuts[k].kind = "edge" =>
                  /\ isspace(text[CutChar(k) + 1])
                  /\ Holders(CutChar(k)) = {}
                  /\ (k < Len(chunks) => cuts[k + 1].lo = CutChar(k) + 1)
            /\ cuts[k].kind = "back" =>
                  /\ text[CutChar(k) + 1] \in BreakChars
                  /\ Holders(CutChar(k)) = {k}
                  /\ chunks[k][Len(chunks[k])] = text[CutChar(k) + 1]
                  /\ (k < Len(chunks) => cuts[k + 1].lo = CutChar(k) + 1)

C21_Witness ==
    /\ Returned
    /\ \E k \in ChunkIdx : cuts[k].kind = "edge"
    /\ \E k \in 1..(Len(chunks) - 1) :
          cuts[k].kind = "back" /\ chunks[k][Len(chunks[k])] = "\n"

----------------------------------------------------------------------------
(* The pipeline's properties: title, block order, polishing failures,      *)
(* clean-up, notifications                                                  *)

\* the title the payload calls for: its 'summary', else its 'keyword', else
\* the sentinel
TitleWanted(data) ==
    IF data.summary \notin {"NoKey", ""} THEN data.summary
    ELSE IF data.keyword \notin {"NoKey", ""} THEN data.keyword
    ELSE "Untitled"

\* C22: the entry title is the payload's 'summary' and, when that is absent
\* or empty, its 'keyword'; "Untitled" is used only when neither is present.
C22_TitleFromSummaryOrKeyword ==
    /\ title_text # "None" => title_text = TitleWanted(polished_data)
    /\ page_id # 0 => store[page_id].title = Literal(TitleWanted(polished_data))

\* the overflow blocks of a run in the order the claim gives them: structured
\* chunks 2..n, then, if the raw transcript has more than one chunk, one
\* heading and raw chunks 2..m
BlocksInOrder(sc, rc) ==
    [k \in 1..(Len(sc) - 1) |-> _paragraph_block(sc[k + 1])]
        \o (IF Len(rc) > 1
            THEN <<_heading_block(Literal("Raw Transcript (continued)"))>>
                 \o [k \in 1..(Len(rc) - 1) |-> _paragraph_block(rc[k + 1])]
            ELSE <<>>)

HeadingsIn(blocks) == {k \in 1..Len(blocks) : blocks[k].type = "heading_2"}

\* C23: the record gets the first structured chunk and (if the raw transcript
\* is non-empty) the first raw chunk in the create call, then structured
\* chunks 2..n in order, then, if and only if the raw transcript has more than
\* one chunk, one heading followed by raw chunks 2..m in order; no raw block
\* is appended before every structured batch was acknowledged, and no heading
\* is appended when the raw transcript fits in one chunk.
C23_BlockOrder ==
    page_id # 0 =>
        LET page == store[page_id]
            rc == ChunksOf(raw_transcript)
            n == Len(structured_chunks)
            m == Len(rc)
            ch == page.children
            all == BlocksInOrder(structured_chunks, rc)
        IN  /\ page.structured = structured_chunks[1]
            /\ page.raw = (IF m >= 1 THEN rc[1] ELSE NoString)
            /\ Len(ch) <= Len(all)
            /\ ch = SubSeq(all, 1, Len(ch))
            /\ HeadingsIn(ch) \subseteq {n}
            /\ (m <= 1 => HeadingsIn(ch) = {} /\ AppendIdx("append_raw") = {})
            /\ \A r \in AppendIdx("append_raw") :
                  /\ \A s \in AppendIdx("append_structured") : s < r /\ calls[s].ok
                  /\ AckedBatches("append_structured") = NumBatches(n - 1)
            /\ (Len(ch) >= n => AckedBatches("append_structured") = NumBatches(n - 1))
            /\ (result.kind = "returned" =>
                    /\ ch = all
                    /\ (m > 1 <=> HeadingsIn(ch) = {n}))

\* the first raw batch was acknowledged after two structured batches, the
\* second raw batch is still to come
C23_Witness ==
    /\ pc = "append_raw"
    /\ Len(structured_chunks) > CHILD_BATCH_SIZE + 1
    /\ AckedBatches("append_structured") = 2
    /\ AckedBatches("append_raw") = 1
    /\ batch_i < Len(children)
    /\ HeadingsIn(store[page_id].children) = {Len(structured_chunks)}

\* the run raised because the polishing reply could not be parsed
\* (json.loads in process_transcript) or has no 'polished' key
\* (polished_data["polished"] in create_entry_from_memory)
PolishedUnusable ==
    /\ result.kind = "raised"
    /\ \/ result.exc = Exc("polishing", "JSONDecodeError", {})
       \/ result.exc = Exc("prepare", "KeyError", {})

\* C24: if the polishing reply cannot be parsed, or parses but lacks the
\* polished text, the run ends failed in the polishing category, no record is
\* created and no local archive is written.
C24_PolishingFailure ==
    Terminal /\ PolishedUnusable =>
        /\ \A m \in FailureMessages : MessageCategory(m.msg) = "Polishing"
        /\ page_id = 0
        /\ \A n \in 1..Len(store) : store[n] = OldPage
        /\ archive = NoArchive

\* The part of C24 that does not depend on how the failure is worded for the
\* user: the run raised, no page was created and nothing of the local archive
\* was written.
PolishingFailureLeavesNothing ==
    PbDone /\ PolishedUnusable =>
        /\ page_id = 0
        /\ \A n \in 1..Len(store) : store[n] = OldPage
        /\ \A n \in CallIdx : calls[n].op # "pages.create"
        /\ archive = NoArchive

\* the one os.remove call of the run failed
RemoveFailed == \E n \in RemoveIdx : ~calls[n].ok

\* the origin of the error a failed stage call raises
OriginOf(c) ==
    CASE c.op = "transcribe"             -> "transcription"
      [] c.op = "process"                -> "polishing"
      [] c.op = "pages.create"           -> "create"
      [] c.op = "blocks.children.append" -> c.phase
      [] OTHER                           -> "archive"

\* C25: a failure of the audio deletion never changes the run's outcome and
\* is never retried: if the stages succeeded the run still returns the record
\* URL, if a stage failed the run still raises that stage's original error.
C25_DeletionFailureKeepsOutcome ==
    PbDone /\ RemoveFailed =>
        /\ remove_calls = 1
        /\ Cardinality(RemoveIdx) = 1
        /\ audio_exists
        /\ (\A n \in StageIdx : calls[n].ok) /\ polished_data.polished # "NoKey" =>
              /\ OkCall("write_metadata")
              /\ result = ReturnedUrl(Url(page_id))
        /\ \A n \in StageIdx :
              ~calls[n].ok =>
                  /\ result.kind = "raised"
                  /\ result.exc.origin = OriginOf(calls[n])
                  /\ result.exc.type # "OSError"
        /\ polished_data.polished = "NoKey" /\ (\A n \in StageIdx : calls[n].ok) =>
              result = Raised(Exc("prepare", "KeyError", {}))
        /\ (pc = "pb_done" /\ result.kind = "raised" => result = Raised(exc))

\* the deletion failed after a stage had failed, and the failure was reported
C25_Witness ==
    /\ pc = "task_done"
    /\ RemoveFailed
    /\ result.kind = "raised"
    /\ result.exc.origin = "append_raw"
    /\ FailureMessages # {}

\* C26: a failure message is sent only for a job whose pipeline run failed:
\* when pipeline_blocking returned a record URL, run_pipeline never sends one
\* of the failure messages, whatever happens while the success notification
\* is delivered.
C26_FailureMessageOnlyOnFailure ==
    result.kind = "returned" =>
        /\ FailureMessages = {}
        /\ \A n \in CallIdx :
              calls[n].op = "send_message" => calls[n].phase = "success"

----------------------------------------------------------------------------
(* The properties of the audio files of concurrent jobs *)

\* the job has its audio path and has not yet left pipeline_blocking
InFlight(j) == a_pc[j] \in {"download", "notice", "transcribe", "stages", "finally"}

\* the job's audio is downloaded and not yet handed to the transcription
AwaitsTranscription(j) == a_pc[j] \in {"notice", "transcribe"}

\* C27: the audio file of a job is owned by that job alone: no two in-flight
\* jobs use the same audio path, so the clean-up of one job never deletes, or
\* finds already deleted, the audio file that another job has not yet
\* finished transcribing.
C27_AudioOwned ==
    /\ \A j \in Jobs : \A k \in Jobs \ {j} :
          InFlight(j) /\ InFlight(k) => a_path[j] # a_path[k]
    /\ \A j \in Jobs :
          /\ AwaitsTranscription(j) => a_path[j] \in voice_files
          /\ a_out[j] # "FileNotFoundError"
          /\ a_cleanup[j] # "absent"

\* What does hold: a job whose path no other job has got keeps its file from
\* the download to its own clean-up, finds it when it transcribes and when it
\* cleans up, and the file is gone afterwards unless os.remove failed.
DistinctPathsAreOwned ==
    \A j \in Jobs :
        (\A k \in Jobs \ {j} : a_path[k] # a_path[j]) =>
            /\ a_pc[j] \in {"notice", "transcribe", "stages", "finally"} =>
                  a_path[j] \in voice_files
            /\ a_out[j] # "FileNotFoundError"
            /\ a_cleanup[j] # "absent"
            /\ a_cleanup[j] = "removed" => a_path[j] \notin voice_files

----------------------------------------------------------------------------
(* The chunker's properties: emptiness and progress *)

\* C28: for a non-empty text and max_chars > 0 no chunk is empty, whichever
\* of the four branches (end of text, edge on whitespace, backward cut, hard
\* cut) emitted it; the loop is entered only with such arguments.
C28_NoEmptyChunk ==
    Running /\ chunks # <<>> =>
        /\ Len(text) > 0
        /\ max_chars > 0
        /\ \A k \in ChunkIdx :
              /\ cuts[k].kind \in {"tail", "edge", "back", "hard"}
              /\ Len(chunks[k]) >= 1
              /\ chunks[k] # <<>>

\* a one-character window: an edge cut, a hard cut that emits a chunk holding
\* nothing but one whitespace character, and the end of the text
C28_Witness ==
    /\ Returned
    /\ max_chars = 1
    /\ \E k \in ChunkIdx : cuts[k].kind = "edge"
    /\ \E k \in ChunkIdx : cuts[k].kind = "hard" /\ isspace(chunks[k][1])
    /\ cuts[Len(chunks)].kind = "tail"

\* one iteration of the loop is taken
Iterates == cpc = "loop" /\ Len(chunks') = Len(chunks) + 1

\* C29: the loop of chunk_text terminates: an iteration either is the
\* end-of-text branch, which emits the rest and leaves the loop, or moves
\* start forward by at least one character; start never moves backward and
\* never passes the end of the text, so at most len(text) iterations are run.
C29_LoopTerminates ==
    [][ /\ start' >= start
        /\ Iterates =>
              /\ start < Len(text)
              /\ \/ start' >= start + 1 /\ start' <= Len(text)
                 \/ cpc' = "returned" /\ cuts'[Len(cuts')].kind = "tail"
              /\ Len(chunks') <= Len(text)
              /\ Len(chunks') <= start' + 1
        /\ cpc = "loop" /\ start >= Len(text) => cpc' = "returned" /\ chunks' = chunks
      ]_vars

\* the loop has run len(text) iterations, the most it can, and was left by the
\* end-of-text branch
C29_Witness ==
    /\ Returned
    /\ Len(text) >= 3
    /\ Len(chunks) = Len(text)
    /\ start = Len(text) - 1
    /\ cuts[Len(chunks)].kind = "tail"

====
